---------------------------- MODULE Spec2Model ----------------------------
(***************************************************************************)
(* Model of the POST /identify handler of src/src/routes/identifyRoute.js  *)
(* (the router mounted by src/src/index.js) over the Contact table.        *)
(*                                                                         *)
(* The Contact table is the sequence `contacts`, in insertion order.  The  *)
(* columns are those of the Contact model (src/README.md, lines 98-106);   *)
(* ids are generated values, modelled as the insertion index.  The handler *)
(* inserts rows that repeat an e-mail or a phone number of a stored row,   *)
(* and its tests expect these inserts to succeed, so the table is modelled *)
(* without a uniqueness constraint on email and phoneNumber.               *)
(*                                                                         *)
(* Values of a request field: a string, the JSON value null (NULL), or no  *)
(* field at all (UNDEF, JavaScript's undefined).  The Prisma client drops  *)
(* an undefined filter from an OR list, reads a null filter as IS NULL,    *)
(* and stores both an undefined and a null field as a NULL column.         *)
(***************************************************************************)
EXTENDS Integers, Sequences, FiniteSets, TLC

(***************************************************************************)
(* Bounds of the model.                                                    *)
(***************************************************************************)
\* The largest Contact table the submissions handled one at a time build.
MaxContacts == 4
\* The largest table when storage calls may fail.
MaxFailContacts == 3
\* The largest table when two submissions are handled concurrently.
MaxConcContacts == 4
\* The largest table of a run that starts from inconsistent data.
MaxOrphanContacts == 4

Emails == {"a@x", "b@x"}
Phones == {"1", "2"}

UNDEF == "undefined"
NULL == "null"
NoId == 0

\* A request field as documented: a string, or absent.
EmailFields == Emails \cup {UNDEF}
PhoneFields == Phones \cup {UNDEF}
\* A request field as JSON allows it: also null.
EmailInputs == EmailFields \cup {NULL}
PhoneInputs == PhoneFields \cup {NULL}

\* The requests handled concurrently.
Procs == {"p", "q"}

VARIABLES
    contacts,   \* the Contact table, in insertion order
    last,       \* the last submission answered: its request, plan and response
    pc,         \* per request in flight: "idle", or "read" once its overlap read is done
    req,        \* per request in flight: its email and phoneNumber
    overlap     \* per request in flight: the overlappingContacts it has read

vars == <<contacts, last, pc, req, overlap>>

(***************************************************************************)
(* JavaScript and Prisma value semantics.                                  *)
(***************************************************************************)
\* !v is false: the value is a non-empty string.
Truthy(v) == v \notin {UNDEF, NULL, ""}

\* The column value an insert stores for a data field.
Stored(v) == IF v = UNDEF THEN NULL ELSE v

\* One { field: given } filter of a where clause.
WhereEq(column, given) == given # UNDEF /\ column = given

Range(s) == {s[i] : i \in 1..Len(s)}

\* [...new Set(values)]: the distinct values in first-seen order.
RECURSIVE Dedup(_)
Dedup(s) ==
    IF s = <<>> THEN <<>>
    ELSE LET front == Dedup(SubSeq(s, 1, Len(s) - 1))
             x == s[Len(s)]
         IN IF x \in Range(front) THEN front ELSE Append(front, x)

\* contacts.map((c) => c.email), .map((c) => c.phoneNumber), .map((c) => c.id)
EmailsOf(s) == [i \in 1..Len(s) |-> s[i].email]

PhoneNumbersOf(s) == [i \in 1..Len(s) |-> s[i].phoneNumber]

IdsOf(s) == [i \in 1..Len(s) |-> s[i].id]

(***************************************************************************)
(* Storage operations.                                                     *)
(***************************************************************************)
\* The timestamp of an insert: createdAt @default(now()).  Two inserts are
\* taken never to fall into the same millisecond.
Now(store) ==
    IF store = <<>> THEN 1 ELSE store[Len(store)].createdAt + 1

\* contact.create({ data: { email, phoneNumber, linkPrecedence, linkedId } })
CreateContact(store, email, phoneNumber, linkPrecedence, linkedId) ==
    Append(store, [id |-> Len(store) + 1,
                   email |-> Stored(email),
                   phoneNumber |-> Stored(phoneNumber),
                   linkPrecedence |-> linkPrecedence,
                   linkedId |-> linkedId,
                   createdAt |-> Now(store)])

\* An update that changes the precedence and leaves linkedId as it was.
UpdatePrecedenceOnly(store, id, linkedId) ==
    [i \in 1..Len(store) |->
        IF store[i].id = id
        THEN [store[i] EXCEPT !.linkPrecedence = "secondary"]
        ELSE store[i]]

\* contact.update({ where: { id }, data: { linkPrecedence: "secondary", linkedId } })
UpdateToSecondary(store, id, linkedId) ==
    [i \in 1..Len(store) |->
        IF store[i].id = id
        THEN [store[i] EXCEPT !.linkPrecedence = "secondary", !.linkedId = linkedId]
        ELSE store[i]]

\* A bulk update that detaches the rows it selects instead of re-pointing them.
UpdateManyToPrimary(store, oldId, newId) ==
    [i \in 1..Len(store) |->
        IF store[i].linkedId = oldId
        THEN [store[i] EXCEPT !.linkPrecedence = "primary", !.linkedId = NoId]
        ELSE store[i]]

\* contact.updateMany({ where: { linkedId: oldId }, data: { linkedId: newId } })
UpdateManyLinkedId(store, oldId, newId) ==
    [i \in 1..Len(store) |->
        IF store[i].linkedId = oldId
        THEN [store[i] EXCEPT !.linkedId = newId]
        ELSE store[i]]

\* contact.findMany({ where: { OR: [{ email }, { phoneNumber }] } })
FindOverlapping(store, email, phoneNumber) ==
    SelectSeq(store, LAMBDA c : WhereEq(c.email, email)
                                \/ WhereEq(c.phoneNumber, phoneNumber))

\* contact.findMany({ where: { OR: [{ id }, { linkedId: id }] } })
FindRelated(store, id) ==
    SelectSeq(store, LAMBDA c : c.id = id \/ c.linkedId = id)


(***************************************************************************)
(* Identity resolution (the handler's else branch, lines 77-143).          *)
(***************************************************************************)
\* A resolution that keeps a secondary whose primary it did not find.
RootOfKeepsUnresolved(overlappingContacts, contact) ==
    IF contact.linkPrecedence = "primary"
    THEN <<contact>>
    ELSE LET found == SelectSeq(overlappingContacts,
                                LAMBDA c : c.id = contact.linkedId)
         IN IF found = <<>> THEN <<contact>> ELSE <<found[1]>>

\* One element of the map at lines 85-90: the contact itself when primary,
\* otherwise overlappingContacts.find((c) => c.id === contact.linkedId);
\* an undefined result is the empty sequence.
RootOf(overlappingContacts, contact) ==
    IF contact.linkPrecedence = "primary"
    THEN <<contact>>
    ELSE LET found == SelectSeq(overlappingContacts,
                                LAMBDA c : c.id = contact.linkedId)
         IN IF found = <<>> THEN <<>> ELSE <<found[1]>>

\* overlappingContacts.map(...).filter(Boolean)
RECURSIVE MapRoots(_, _)
MapRoots(overlappingContacts, rest) ==
    IF rest = <<>> THEN <<>>
    ELSE RootOf(overlappingContacts, Head(rest))
         \o MapRoots(overlappingContacts, Tail(rest))

PrimaryContacts(overlappingContacts) ==
    MapRoots(overlappingContacts, overlappingContacts)

\* primaryContacts.sort((a, b) => new Date(a.createdAt) - new Date(b.createdAt)):
\* ascending, and stable (equal timestamps keep their order).
RECURSIVE SortByCreatedAt(_)
SortByCreatedAt(s) ==
    IF s = <<>> THEN <<>>
    ELSE LET x == Head(s)
             rest == SortByCreatedAt(Tail(s))
         IN SelectSeq(rest, LAMBDA c : c.createdAt < x.createdAt)
            \o <<x>>
            \o SelectSeq(rest, LAMBDA c : c.createdAt >= x.createdAt)

UltimatePrimary(primaryContacts) == SortByCreatedAt(primaryContacts)[1]

\* An election that demotes no other primary.
NoOtherPrimaries(primaryContacts) == <<>>

\* primaryContacts.slice(1) after the sort (line 135)
OtherPrimaries(primaryContacts) == Tail(SortByCreatedAt(primaryContacts))

\* An overlap test that compares the email only.
IsOverlappingEmailOnly(email, phoneNumber, ultimatePrimary) ==
    Truthy(email) /\ ultimatePrimary.email = email

IsOverlapping(email, phoneNumber, ultimatePrimary) ==
    \/ Truthy(email) /\ ultimatePrimary.email = email
    \/ Truthy(phoneNumber) /\ ultimatePrimary.phoneNumber = phoneNumber

(***************************************************************************)
(* Responses.                                                              *)
(***************************************************************************)
Response(status, error, primaryContactId, emails, phoneNumbers, secondaryContactIds) ==
    [status |-> status, error |-> error,
     primaryContactId |-> primaryContactId,
     emails |-> emails, phoneNumbers |-> phoneNumbers,
     secondaryContactIds |-> secondaryContactIds]

BadRequest ==
    Response(400, "Email or phone number is required.", NoId, <<>>, <<>>, <<>>)

InternalError ==
    Response(500, "Internal server error.", NoId, <<>>, <<>>, <<>>)

\* The view of a newly created primary (lines 57-76 and 104-120).
NewPrimaryView(newPrimary) ==
    Response(200, "", newPrimary.id,
             IF Truthy(newPrimary.email) THEN <<newPrimary.email>> ELSE <<>>,
             IF Truthy(newPrimary.phoneNumber) THEN <<newPrimary.phoneNumber>> ELSE <<>>,
             <<>>)

\* The view assembled from allRelatedContacts (lines 192-215 and 286-309).
RelatedView(primaryContactId, allRelatedContacts) ==
    Response(200, "", primaryContactId,
             Dedup(SelectSeq(EmailsOf(allRelatedContacts), Truthy)),
             Dedup(SelectSeq(PhoneNumbersOf(allRelatedContacts), Truthy)),
             IdsOf(SelectSeq(allRelatedContacts,
                             LAMBDA c : c.linkPrecedence = "secondary")))

(***************************************************************************)
(* The two transactions.  A transaction body is a sequence of storage      *)
(* calls; failAt = k > 0 makes its k-th call throw, failAt = 0 lets every  *)
(* call succeed.  The result holds the table as the body has written it so *)
(* far, whether the body threw, and the value it returned.                 *)
(***************************************************************************)
Min(a, b) == IF a <= b THEN a ELSE b

\* The first `count` updates of otherPrimaries.map((primary) => tx.contact.update(...)).
RECURSIVE DemoteFirst(_, _, _, _)
DemoteFirst(store, primaries, linkedId, count) ==
    IF count = 0 \/ primaries = <<>> THEN store
    ELSE DemoteFirst(UpdateToSecondary(store, Head(primaries).id, linkedId),
                     Tail(primaries), linkedId, count - 1)

\* Lines 150-216: create the new secondary, demote otherPrimaries, read the view.
AttachOrMergeTx(store, email, phoneNumber, ultimatePrimary, otherPrimaries, failAt) ==
    LET n == Len(otherPrimaries)
        created == CreateContact(store, email, phoneNumber, "secondary",
                                 ultimatePrimary.id)
        done == IF failAt = 0 THEN n ELSE Min(n, failAt - 2)
        written == IF failAt = 1 THEN store
                   ELSE DemoteFirst(created, otherPrimaries, ultimatePrimary.id, done)
    IN [store |-> written,
        thrown |-> failAt # 0,
        value |-> IF failAt # 0 THEN InternalError
                  ELSE RelatedView(ultimatePrimary.id,
                                   FindRelated(written, ultimatePrimary.id))]

\* The number of storage calls of the AttachOrMerge transaction.
AttachOrMergeCalls(otherPrimaries) == Len(otherPrimaries) + 2

\* Lines 227-310: create the new primary, demote ultimatePrimary, re-link its
\* secondaries, demote otherPrimaries, read the view.
PromoteNewPrimaryTx(store, email, phoneNumber, ultimatePrimary, otherPrimaries, failAt) ==
    LET n == Len(otherPrimaries)
        created == CreateContact(store, email, phoneNumber, "primary", NoId)
        newPrimary == created[Len(created)]
        demoted == UpdateToSecondary(created, ultimatePrimary.id, newPrimary.id)
        relinked == UpdateManyLinkedId(demoted, ultimatePrimary.id, newPrimary.id)
        done == IF failAt = 0 THEN n ELSE Min(n, failAt - 4)
        written == CASE failAt = 1 -> store
                     [] failAt = 2 -> created
                     [] failAt = 3 -> demoted
                     [] OTHER -> DemoteFirst(relinked, otherPrimaries, newPrimary.id, done)
    IN [store |-> written,
        thrown |-> failAt # 0,
        value |-> IF failAt # 0 THEN InternalError
                  ELSE RelatedView(newPrimary.id, FindRelated(written, newPrimary.id))]

\* The number of storage calls of the PromoteNewPrimary transaction.
PromoteNewPrimaryCalls(otherPrimaries) == Len(otherPrimaries) + 4

\* A transaction whose failed body keeps its writes.
TransactionKeepsWrites(store, tx) == tx.store

\* prisma.$transaction(async (tx) => ...): the writes of a body that threw are
\* rolled back, those of a body that returned are committed.
Transaction(store, tx) == IF tx.thrown THEN store ELSE tx.store

(***************************************************************************)
(* The handler after its overlap read (lines 47-315), on the table `store` *)
(* with the overlap set read earlier.  failAt counts the storage calls     *)
(* that follow the overlap read.                                           *)
(***************************************************************************)
Outcome(store, response, plan, calls) ==
    [store |-> store, response |-> response, plan |-> plan, calls |-> calls]

\* An insert that is tried again after it failed, and then answered.
CreateNewPrimaryRetrying(store, email, phoneNumber, failAt, plan) ==
    LET created == CreateContact(store, email, phoneNumber, "primary", NoId)
    IN Outcome(created, NewPrimaryView(created[Len(created)]), plan,
               IF failAt # 0 THEN 2 ELSE 1)

\* Lines 49-76 and 96-120: a single insert outside any transaction.
CreateNewPrimary(store, email, phoneNumber, failAt, plan) ==
    LET created == CreateContact(store, email, phoneNumber, "primary", NoId)
    IN IF failAt # 0
       THEN Outcome(store, InternalError, plan, 1)
       ELSE Outcome(created, NewPrimaryView(created[Len(created)]), plan, 1)

Plan(email, phoneNumber, overlappingContacts) ==
    IF Len(overlappingContacts) = 0 THEN "CreateNewPrimary"
    ELSE IF Len(PrimaryContacts(overlappingContacts)) = 0 THEN "Fallback"
    ELSE IF IsOverlapping(email, phoneNumber,
                          UltimatePrimary(PrimaryContacts(overlappingContacts)))
    THEN "AttachOrMerge"
    ELSE "PromoteNewPrimary"

\* The storage calls that follow the overlap read when none fails.
CallsAfterRead(email, phoneNumber, overlappingContacts) ==
    LET plan == Plan(email, phoneNumber, overlappingContacts)
        others == OtherPrimaries(PrimaryContacts(overlappingContacts))
    IN CASE plan = "AttachOrMerge" -> AttachOrMergeCalls(others)
         [] plan = "PromoteNewPrimary" -> PromoteNewPrimaryCalls(others)
         [] OTHER -> 1

AfterRead(store, email, phoneNumber, overlappingContacts, failAt) ==
    LET plan == Plan(email, phoneNumber, overlappingContacts)
        primaryContacts == PrimaryContacts(overlappingContacts)
        ultimatePrimary == UltimatePrimary(primaryContacts)
        otherPrimaries == OtherPrimaries(primaryContacts)
        calls == IF failAt = 0
                 THEN CallsAfterRead(email, phoneNumber, overlappingContacts)
                 ELSE failAt
    IN CASE plan \in {"CreateNewPrimary", "Fallback"} ->
              CreateNewPrimary(store, email, phoneNumber, failAt, plan)
         [] plan = "AttachOrMerge" ->
              LET tx == AttachOrMergeTx(store, email, phoneNumber, ultimatePrimary,
                                        otherPrimaries, failAt)
              IN Outcome(Transaction(store, tx), tx.value, plan, calls)
         [] plan = "PromoteNewPrimary" ->
              LET tx == PromoteNewPrimaryTx(store, email, phoneNumber, ultimatePrimary,
                                            otherPrimaries, failAt)
              IN Outcome(Transaction(store, tx), tx.value, plan, calls)

(***************************************************************************)
(* The whole handler, run alone (lines 17-324).  failAt counts all of its  *)
(* storage calls, the overlap read being the first.                        *)
(***************************************************************************)
\* A validation that tests for missing fields only, and lets null through.
IsInvalidMissingOnly(email, phoneNumber) == email = UNDEF /\ phoneNumber = UNDEF

\* !email && !phoneNumber (line 23)
IsInvalid(email, phoneNumber) == ~Truthy(email) /\ ~Truthy(phoneNumber)

Handle(store, email, phoneNumber, failAt) ==
    IF IsInvalid(email, phoneNumber)
    THEN Outcome(store, BadRequest, "Invalid", 0)
    ELSE IF failAt = 1
    THEN Outcome(store, InternalError, "ReadFailed", 1)
    ELSE LET overlappingContacts == FindOverlapping(store, email, phoneNumber)
             out == AfterRead(store, email, phoneNumber, overlappingContacts,
                              IF failAt = 0 THEN 0 ELSE failAt - 1)
         IN Outcome(out.store, out.response, out.plan, out.calls + 1)

\* The storage calls of the handler when none fails.
HandlerCalls(store, email, phoneNumber) ==
    IF IsInvalid(email, phoneNumber) THEN 0
    ELSE 1 + CallsAfterRead(email, phoneNumber,
                            FindOverlapping(store, email, phoneNumber))

Submission(email, phoneNumber, failAt, out) ==
    [email |-> email, phoneNumber |-> phoneNumber, failAt |-> failAt,
     plan |-> out.plan, response |-> out.response, calls |-> out.calls]

NoRequest == [email |-> UNDEF, phoneNumber |-> UNDEF]

Init ==
    /\ contacts = <<>>
    /\ last = Submission(UNDEF, UNDEF, 0, Outcome(<<>>, BadRequest, "None", 0))
    /\ pc = [p \in Procs |-> "idle"]
    /\ req = [p \in Procs |-> NoRequest]
    /\ overlap = [p \in Procs |-> <<>>]

\* One POST /identify, handled from the request to the response with no other
\* request in flight; failAt = 0: every storage call succeeds.
Identify(email, phoneNumber, failAt, bound) ==
    /\ IsInvalid(email, phoneNumber) \/ Len(contacts) < bound
    /\ LET out == Handle(contacts, email, phoneNumber, failAt)
       IN /\ contacts' = out.store
          /\ last' = Submission(email, phoneNumber, failAt, out)
    /\ UNCHANGED <<pc, req, overlap>>

Next ==
    \E email \in EmailFields, phoneNumber \in PhoneFields :
        Identify(email, phoneNumber, 0, MaxContacts)

Spec == Init /\ [][Next]_vars

\* The same, with request fields that may be null.
NextNull ==
    \E email \in EmailInputs, phoneNumber \in PhoneInputs :
        Identify(email, phoneNumber, 0, MaxContacts)

SpecNull == Init /\ [][NextNull]_vars

\* With a storage failure at any one storage call of the handler.
NextFail ==
    \E email \in EmailInputs, phoneNumber \in PhoneInputs :
        \E failAt \in 0..HandlerCalls(contacts, email, phoneNumber) :
            Identify(email, phoneNumber, failAt, MaxFailContacts)

SpecFail == Init /\ [][NextFail]_vars

(***************************************************************************)
(* Two requests in flight.  A request is handled in two steps: Begin, from *)
(* the validation to the end of the overlap read (lines 19-41), and        *)
(* Finish, the rest of the handler (lines 47-315), whose writes are one    *)
(* insert or one transaction.                                              *)
(***************************************************************************)
Begin(p, email, phoneNumber) ==
    /\ pc[p] = "idle"
    /\ IF IsInvalid(email, phoneNumber)
       THEN /\ last' = Submission(email, phoneNumber, 0,
                                  Outcome(contacts, BadRequest, "Invalid", 0))
            /\ UNCHANGED <<contacts, pc, req, overlap>>
       ELSE /\ Len(contacts) + Cardinality({q \in Procs : pc[q] = "read"})
                 < MaxConcContacts
            /\ pc' = [pc EXCEPT ![p] = "read"]
            /\ req' = [req EXCEPT ![p] = [email |-> email, phoneNumber |-> phoneNumber]]
            /\ overlap' = [overlap EXCEPT
                              ![p] = FindOverlapping(contacts, email, phoneNumber)]
            /\ UNCHANGED <<contacts, last>>

Finish(p) ==
    /\ pc[p] = "read"
    /\ LET out == AfterRead(contacts, req[p].email, req[p].phoneNumber,
                            overlap[p], 0)
       IN /\ contacts' = out.store
          /\ last' = Submission(req[p].email, req[p].phoneNumber, 0,
                                Outcome(out.store, out.response, out.plan,
                                        out.calls + 1))
    /\ pc' = [pc EXCEPT ![p] = "idle"]
    /\ req' = [req EXCEPT ![p] = NoRequest]
    /\ overlap' = [overlap EXCEPT ![p] = <<>>]

NextConc ==
    \E p \in Procs :
        \/ \E email \in EmailFields, phoneNumber \in PhoneFields :
               Begin(p, email, phoneNumber)
        \/ Finish(p)

SpecConc == Init /\ [][NextConc]_vars

(***************************************************************************)
(* A table seeded with inconsistent data: one secondary row whose linkedId *)
(* names a row that is not in the table (its primary was removed behind    *)
(* the handler's back).  The handler itself never produces such a row.     *)
(***************************************************************************)
MissingId == MaxOrphanContacts + 1

OrphanRows ==
    {[id |-> 1, email |-> email, phoneNumber |-> phoneNumber,
      linkPrecedence |-> "secondary", linkedId |-> MissingId, createdAt |-> 1] :
        email \in Emails \cup {NULL}, phoneNumber \in Phones \cup {NULL}}

InitOrphan ==
    /\ \E row \in OrphanRows :
          /\ Truthy(row.email) \/ Truthy(row.phoneNumber)
          /\ contacts = <<row>>
    /\ last = Submission(UNDEF, UNDEF, 0, Outcome(<<>>, BadRequest, "None", 0))
    /\ pc = [p \in Procs |-> "idle"]
    /\ req = [p \in Procs |-> NoRequest]
    /\ overlap = [p \in Procs |-> <<>>]

NextOrphan ==
    \E email \in EmailFields, phoneNumber \in PhoneFields :
        Identify(email, phoneNumber, 0, MaxOrphanContacts)

SpecOrphan == InitOrphan /\ [][NextOrphan]_vars

(***************************************************************************)
(* The order of the rows of a findMany.  Neither read of the handler has   *)
(* an orderBy, so the rows come back in an order the database chooses.     *)
(* The overlap read's order has no effect (the candidates are sorted by    *)
(* createdAt and looked up by id); the order of the final read of a        *)
(* transaction (lines 183-190 and 277-284) is the order of the lists of    *)
(* the response.  IdentifyAnyOrder is Identify with that read returning    *)
(* its rows in any order.                                                  *)
(***************************************************************************)
Orderings(rows) ==
    {t \in [1..Len(rows) -> Range(rows)] : Range(t) = Range(rows)}

IdentifyAnyOrder(email, phoneNumber, bound) ==
    /\ IsInvalid(email, phoneNumber) \/ Len(contacts) < bound
    /\ LET out == Handle(contacts, email, phoneNumber, 0)
           primaryContactId == out.response.primaryContactId
       IN /\ contacts' = out.store
          /\ IF out.plan \in {"AttachOrMerge", "PromoteNewPrimary"}
             THEN \E allRelatedContacts
                        \in Orderings(FindRelated(out.store, primaryContactId)) :
                     last' = Submission(email, phoneNumber, 0,
                                        Outcome(out.store,
                                                RelatedView(primaryContactId,
                                                            allRelatedContacts),
                                                out.plan, out.calls))
             ELSE last' = Submission(email, phoneNumber, 0, out)
    /\ UNCHANGED <<pc, req, overlap>>

NextOrder ==
    \E email \in EmailFields, phoneNumber \in PhoneFields :
        IdentifyAnyOrder(email, phoneNumber, MaxContacts)

SpecOrder == Init /\ [][NextOrder]_vars

(***************************************************************************)
(* Vocabulary of the properties.  In a step of a specification, `last'`    *)
(* is the submission the step answers, `contacts` the table before it and  *)
(* `contacts'` the table after it.                                         *)
(***************************************************************************)
Ids(store) == {store[i].id : i \in 1..Len(store)}

ById(store, id) == CHOOSE c \in Range(store) : c.id = id

Given(v) == v \notin {UNDEF, NULL}

\* The contact matches the submission on a value the submission gives.
Shares(c, email, phoneNumber) ==
    \/ Given(email) /\ c.email = email
    \/ Given(phoneNumber) /\ c.phoneNumber = phoneNumber

\* The contact at the end of the linkedId chain that starts at id (the chain
\* is followed for at most `fuel` links; a missing target ends it).
RECURSIVE RootId(_, _, _)
RootId(store, id, fuel) ==
    IF id \notin Ids(store) THEN id
    ELSE LET c == ById(store, id)
         IN IF c.linkPrecedence = "primary" \/ fuel = 0 \/ c.linkedId = id
            THEN id
            ELSE RootId(store, c.linkedId, fuel - 1)

Root(store, c) == RootId(store, c.id, Len(store))

\* The contacts of the identity of the contact named id.
Identity(store, id) == {c \in Range(store) : Root(store, c) = id}

Secondaries(store, id) ==
    {c \in Range(store) : c.linkPrecedence = "secondary" /\ c.linkedId = id}

Answered == last'.response.status = 200

(***************************************************************************)
(* C1.  After any sequence of submissions, every secondary Contact has a   *)
(* linkedId that names another stored Contact whose linkPrecedence is      *)
(* primary.                                                                *)
(***************************************************************************)
SecondaryLinksToPrimary ==
    \A c \in Range(contacts) :
        c.linkPrecedence = "secondary" =>
            /\ c.linkedId # c.id
            /\ c.linkedId \in Ids(contacts)
            /\ ById(contacts, c.linkedId).linkPrecedence = "primary"

(***************************************************************************)
(* C2.  Idempotence: a submission that repeats the (email, phoneNumber) of *)
(* the submission answered just before it creates no Contact, and its      *)
(* response equals the first one.                                          *)
(***************************************************************************)
Idempotence ==
    [][(/\ last.response.status = 200
        /\ Answered
        /\ last'.email = last.email
        /\ last'.phoneNumber = last.phoneNumber)
       => /\ Len(contacts') = Len(contacts)
          /\ last'.response = last.response]_vars

(***************************************************************************)
(* C3.  Merge atomicity: when a storage call fails inside the AttachOrMerge*)
(* or the PromoteNewPrimary transaction, the table after the failed        *)
(* submission equals the table before it.                                  *)
(***************************************************************************)
MergeAtomicity ==
    [][(/\ last'.response.status = 500
        /\ last'.plan \in {"AttachOrMerge", "PromoteNewPrimary"})
       => contacts' = contacts]_vars

\* A transaction failed after it had inserted a Contact and demoted a primary.
MergeAtomicityWitness ==
    /\ last.response.status = 500
    /\ last.plan \in {"AttachOrMerge", "PromoteNewPrimary"}
    /\ last.failAt >= 4
    /\ Len(contacts) >= 2

(***************************************************************************)
(* C4.  Oldest-record-wins on a bridge: when the submission's email        *)
(* matches a record of one identity and its phone number a record of       *)
(* another, then after the submission an oldest of the touched primaries   *)
(* is still primary, every other touched primary is a secondary linked to  *)
(* it, the response names it as primaryContactId and lists the demoted     *)
(* primaries among secondaryContactIds.                                    *)
(***************************************************************************)
\* The primaries of the identities the submission touches.
TouchedPrimaries(store, email, phoneNumber) ==
    {ById(store, Root(store, c)) :
        c \in {x \in Range(store) : Shares(x, email, phoneNumber)}}

IsBridge(store, email, phoneNumber) ==
    \E x, y \in Range(store) :
        /\ Given(email) /\ x.email = email
        /\ Given(phoneNumber) /\ y.phoneNumber = phoneNumber
        /\ Root(store, x) # Root(store, y)

OldestWinsOnBridge ==
    [][(Answered /\ IsBridge(contacts, last'.email, last'.phoneNumber))
       => LET touched == TouchedPrimaries(contacts, last'.email, last'.phoneNumber)
          IN \E oldest \in touched :
                /\ \A t \in touched : oldest.createdAt <= t.createdAt
                /\ ById(contacts', oldest.id).linkPrecedence = "primary"
                /\ last'.response.primaryContactId = oldest.id
                /\ \A t \in touched \ {oldest} :
                      /\ ById(contacts', t.id).linkPrecedence = "secondary"
                      /\ ById(contacts', t.id).linkedId = oldest.id
                      /\ t.id \in Range(last'.response.secondaryContactIds)]_vars

(***************************************************************************)
(* C5.  Set completeness: in every success response, emails (phoneNumbers) *)
(* holds each value once and, as a set, is the set of the non-null email   *)
(* (phoneNumber) values of the Contacts of the identity of                 *)
(* primaryContactId in the table after the submission.                     *)
(***************************************************************************)
NoRepeats(s) == Cardinality(Range(s)) = Len(s)

SetCompleteness ==
    last.response.status = 200 =>
        LET identity == {ById(contacts, last.response.primaryContactId)}
                        \cup Identity(contacts, last.response.primaryContactId)
        IN /\ NoRepeats(last.response.emails)
           /\ NoRepeats(last.response.phoneNumbers)
           /\ Range(last.response.emails) = {c.email : c \in identity} \ {NULL}
           /\ Range(last.response.phoneNumbers)
                 = {c.phoneNumber : c \in identity} \ {NULL}

(***************************************************************************)
(* C6.  Primary stability: the ultimate primary of a submission goes from  *)
(* primary to secondary only in a PromoteNewPrimary transform, and only    *)
(* when the submission matches neither its email nor its phone number; an  *)
(* AttachOrMerge transform never demotes its own ultimate primary.         *)
(***************************************************************************)
PrimaryStability ==
    [][(Answered /\ last'.plan \in {"AttachOrMerge", "PromoteNewPrimary"})
       => LET ultimatePrimary ==
                  UltimatePrimary(PrimaryContacts(
                      FindOverlapping(contacts, last'.email, last'.phoneNumber)))
          IN (/\ ultimatePrimary.linkPrecedence = "primary"
              /\ ById(contacts', ultimatePrimary.id).linkPrecedence = "secondary")
             => /\ last'.plan = "PromoteNewPrimary"
                /\ ~Shares(ultimatePrimary, last'.email, last'.phoneNumber)]_vars

Validation ==
    [][(~Given(last'.email) /\ ~Given(last'.phoneNumber))
       => /\ last'.response.status = 400
          /\ last'.response.error = "Email or phone number is required."
          /\ last'.calls = 0
          /\ contacts' = contacts]_vars

\* An invalid submission was answered on a table that holds Contacts.
ValidationWitness ==
    /\ last.plan = "Invalid"
    /\ last.email = NULL
    /\ last.response.status = 400
    /\ Len(contacts) >= 1

(***************************************************************************)
(* C9.  CreateNewPrimary: when no stored Contact shares the submission's   *)
(* email or phone number, the submission inserts exactly one Contact, a    *)
(* primary without linkedId, changes no stored Contact, and answers with   *)
(* that Contact's id, the submitted values and no secondaryContactIds.     *)
(***************************************************************************)
CreatesOnePrimary ==
    [][(/\ Answered
        /\ \A c \in Range(contacts) : ~Shares(c, last'.email, last'.phoneNumber))
       => /\ Len(contacts') = Len(contacts) + 1
          /\ SubSeq(contacts', 1, Len(contacts)) = contacts
          /\ LET new == contacts'[Len(contacts')]
             IN /\ new.linkPrecedence = "primary"
                /\ new.linkedId = NoId
                /\ new.email = Stored(last'.email)
                /\ new.phoneNumber = Stored(last'.phoneNumber)
                /\ last'.response.primaryContactId = new.id
                /\ Range(last'.response.emails) = {last'.email} \ {UNDEF, NULL}
                /\ Range(last'.response.phoneNumbers)
                      = {last'.phoneNumber} \ {UNDEF, NULL}
                /\ last'.response.secondaryContactIds = <<>>]_vars

(***************************************************************************)
(* C10.  Attach: when the submission shares its email or its phone number  *)
(* with the own field of a primary, touches no other identity, and its     *)
(* other value does not occur in that identity yet, exactly one Contact is *)
(* created, a secondary linked to that primary; no stored Contact changes; *)
(* the response names that primary, holds the old and the new values, and  *)
(* secondaryContactIds grows by exactly one entry.                         *)
(***************************************************************************)
IsAttach(store, primary, email, phoneNumber) ==
    /\ primary.linkPrecedence = "primary"
    /\ Given(email) /\ Given(phoneNumber)
    /\ \A c \in Range(store) :
          Shares(c, email, phoneNumber) => Root(store, c) = primary.id
    /\ \/ /\ primary.email = email
          /\ \A c \in Identity(store, primary.id) : c.phoneNumber # phoneNumber
       \/ /\ primary.phoneNumber = phoneNumber
          /\ \A c \in Identity(store, primary.id) : c.email # email

AttachesOneSecondary ==
    [][\A primary \in Range(contacts) :
         (Answered /\ IsAttach(contacts, primary, last'.email, last'.phoneNumber))
         => /\ Len(contacts') = Len(contacts) + 1
            /\ SubSeq(contacts', 1, Len(contacts)) = contacts
            /\ contacts'[Len(contacts')].linkPrecedence = "secondary"
            /\ contacts'[Len(contacts')].linkedId = primary.id
            /\ last'.response.primaryContactId = primary.id
            /\ {primary.email, last'.email} \ {NULL}
                  \subseteq Range(last'.response.emails)
            /\ {primary.phoneNumber, last'.phoneNumber} \ {NULL}
                  \subseteq Range(last'.response.phoneNumbers)
            /\ Len(last'.response.secondaryContactIds)
                  = Cardinality(Secondaries(contacts, primary.id)) + 1]_vars

(***************************************************************************)
(* C11.  Merge on demand after a read race: two submissions of the same    *)
(* new pair that both read an empty overlap and each inserted a primary    *)
(* leave two primaries carrying that pair and nothing else matching it.    *)
(* A later submission of the pair that runs alone (its overlap read is     *)
(* still the table's answer when it writes) keeps the one created earlier  *)
(* primary and makes the other a secondary linked to it.                   *)
(***************************************************************************)
IsRacedPair(store, found, email, phoneNumber) ==
    /\ found = FindOverlapping(store, email, phoneNumber)
    /\ Len(found) = 2
    /\ found[1].createdAt < found[2].createdAt
    /\ \A i \in 1..2 :
          /\ found[i].linkPrecedence = "primary"
          /\ found[i].email = Stored(email)
          /\ found[i].phoneNumber = Stored(phoneNumber)

LinkedIdIffSecondary ==
    \A c \in Range(contacts) :
        (c.linkedId # NoId) <=> (c.linkPrecedence = "secondary")

\* A PromoteNewPrimary has demoted a former primary under the new primary.
LinkedIdIffSecondaryWitness ==
    /\ last.plan = "PromoteNewPrimary"
    /\ last.response.status = 200
    /\ \E c \in Range(contacts) :
          /\ c.linkPrecedence = "secondary"
          /\ c.linkedId = last.response.primaryContactId
    /\ ById(contacts, last.response.primaryContactId).linkedId = NoId

(***************************************************************************)
(* C13.  Root-primary resolution: when the submission matches only         *)
(* secondary Contacts, whose primaries exist in the table but match        *)
(* neither value of the submission, the answer names one of those          *)
(* primaries and no new primary is created.                                *)
(***************************************************************************)
MatchesOnlySecondaries(store, email, phoneNumber) ==
    LET found == FindOverlapping(store, email, phoneNumber)
    IN /\ found # <<>>
       /\ \A c \in Range(found) :
             /\ c.linkPrecedence = "secondary"
             /\ c.linkedId \in Ids(store)
             /\ ById(store, c.linkedId).linkPrecedence = "primary"
             /\ ById(store, c.linkedId) \notin Range(found)

ResolvesRootPrimary ==
    [][(Answered /\ MatchesOnlySecondaries(contacts, last'.email, last'.phoneNumber))
       => /\ last'.response.primaryContactId
                \in {c.linkedId : c \in Range(FindOverlapping(contacts, last'.email,
                                                              last'.phoneNumber))}
          /\ \A i \in (Len(contacts) + 1)..Len(contacts') :
                contacts'[i].linkPrecedence = "secondary"]_vars

(***************************************************************************)
(* C14.  Deduplication of root primaries: for the overlap set of every     *)
(* answered submission, the candidate list holds each root primary at most *)
(* once, so the elected ultimate primary is not among otherPrimaries.      *)
(***************************************************************************)
RootPrimariesDeduplicated ==
    [][Answered
       => LET primaryContacts ==
                  PrimaryContacts(FindOverlapping(contacts, last'.email,
                                                  last'.phoneNumber))
          IN primaryContacts # <<>>
             => /\ NoRepeats(IdsOf(primaryContacts))
                /\ UltimatePrimary(primaryContacts).id
                      \notin Ids(OtherPrimaries(primaryContacts))]_vars

(***************************************************************************)
(* C15.  Flattening in AttachOrMerge: after an AttachOrMerge that demotes  *)
(* otherPrimaries, every Contact whose linkedId referenced one of the      *)
(* demoted primaries before the step has linkedId equal to the ultimate    *)
(* primary's id after it.                                                  *)
(***************************************************************************)
AttachOrMergeFlattens ==
    [][(Answered /\ last'.plan = "AttachOrMerge")
       => LET primaryContacts ==
                  PrimaryContacts(FindOverlapping(contacts, last'.email,
                                                  last'.phoneNumber))
              demoted == Ids(OtherPrimaries(primaryContacts))
          IN \A i \in 1..Len(contacts) :
                contacts[i].linkedId \in demoted
                => contacts'[i].linkedId = UltimatePrimary(primaryContacts).id]_vars

(***************************************************************************)
(* C16.  PromoteNewPrimary postcondition: after a PromoteNewPrimary there  *)
(* is exactly one new Contact, a primary built from the submission; the    *)
(* former ultimate primary and every entry of otherPrimaries are secondary *)
(* with linkedId equal to the new primary's id; and every Contact that was *)
(* linked to any of those demoted primaries has linkedId equal to the new  *)
(* primary's id.                                                           *)
(***************************************************************************)
PromoteNewPrimaryPostcondition ==
    [][(Answered /\ last'.plan = "PromoteNewPrimary")
       => LET primaryContacts ==
                  PrimaryContacts(FindOverlapping(contacts, last'.email,
                                                  last'.phoneNumber))
              demoted == Ids(primaryContacts)
              newPrimary == contacts'[Len(contacts')]
          IN /\ Len(contacts') = Len(contacts) + 1
             /\ newPrimary.linkPrecedence = "primary"
             /\ newPrimary.linkedId = NoId
             /\ newPrimary.email = Stored(last'.email)
             /\ newPrimary.phoneNumber = Stored(last'.phoneNumber)
             /\ \A i \in 1..Len(contacts) :
                   (contacts[i].id \in demoted \/ contacts[i].linkedId \in demoted)
                   => /\ contacts'[i].linkPrecedence = "secondary"
                      /\ contacts'[i].linkedId = newPrimary.id]_vars

(***************************************************************************)
(* C17.  No new information, no new record: when the submission touches    *)
(* exactly one identity, and both its email and its phone number already   *)
(* occur on Contacts of that identity, no Contact is created and the       *)
(* answer is the view of that identity.                                    *)
(***************************************************************************)
BringsNothingNew(store, primary, email, phoneNumber) ==
    /\ primary.linkPrecedence = "primary"
    /\ Given(email) /\ Given(phoneNumber)
    /\ \A c \in Range(store) :
          Shares(c, email, phoneNumber) => Root(store, c) = primary.id
    /\ \E c \in Identity(store, primary.id) : c.email = email
    /\ \E c \in Identity(store, primary.id) : c.phoneNumber = phoneNumber

NoNewInformationNoNewRecord ==
    [][\A primary \in Range(contacts) :
         (Answered /\ BringsNothingNew(contacts, primary, last'.email,
                                       last'.phoneNumber))
         => /\ Len(contacts') = Len(contacts)
            /\ last'.response.primaryContactId = primary.id]_vars

(***************************************************************************)
(* C18.  Lifecycle frame: no submission deletes a Contact or changes a     *)
(* stored Contact's id, email, phoneNumber or createdAt; a stored Contact  *)
(* changes only by linkPrecedence going from primary to secondary and by   *)
(* linkedId being set or re-pointed; no Contact goes from secondary back   *)
(* to primary.                                                             *)
(***************************************************************************)
LifecycleFrame ==
    [][/\ Len(contacts') >= Len(contacts)
       /\ \A i \in 1..Len(contacts) :
             /\ contacts'[i].id = contacts[i].id
             /\ contacts'[i].email = contacts[i].email
             /\ contacts'[i].phoneNumber = contacts[i].phoneNumber
             /\ contacts'[i].createdAt = contacts[i].createdAt
             /\ contacts[i].linkPrecedence = "secondary"
                   => contacts'[i].linkPrecedence = "secondary"
             /\ contacts[i].linkedId # NoId => contacts'[i].linkedId # NoId]_vars

\* A PromoteNewPrimary has demoted a primary and re-pointed a secondary of it.
LifecycleFrameWitness ==
    /\ last.plan = "PromoteNewPrimary"
    /\ last.response.status = 200
    /\ Len(last.response.secondaryContactIds) >= 2
    /\ \A id \in Range(last.response.secondaryContactIds) :
          ById(contacts, id).linkedId = last.response.primaryContactId

(***************************************************************************)
(* C19.  A storage failure at any storage call of a valid submission (the  *)
(* overlap read, the primary insert, or any call inside a transaction) is  *)
(* answered by the one response 500 "Internal server error.", with no      *)
(* view; the failing call is the handler's last storage call (nothing is   *)
(* retried).                                                               *)
(***************************************************************************)
StorageFailureIsOneOpaqueError ==
    [][last'.failAt > 0
       => /\ last'.response.status = 500
          /\ last'.response.error = "Internal server error."
          /\ last'.response.primaryContactId = NoId
          /\ last'.response.emails = <<>>
          /\ last'.response.phoneNumbers = <<>>
          /\ last'.response.secondaryContactIds = <<>>
          /\ last'.calls = last'.failAt]_vars

\* The insert of a new primary failed on a table that holds Contacts.
StorageFailureIsOneOpaqueErrorWitness ==
    /\ last.plan = "CreateNewPrimary"
    /\ last.failAt = 2
    /\ last.response.status = 500
    /\ Len(contacts) >= 1

(***************************************************************************)
(* C20.  Inconsistent-data fallback: when the overlap set is not empty and *)
(* every Contact in it is a secondary whose linkedId names no Contact of   *)
(* the table, the submission is answered 200: exactly one Contact is       *)
(* inserted, a primary built from the submission; no stored Contact        *)
(* changes; the view names the new primary, with secondaryContactIds = []. *)
(***************************************************************************)
MatchesOnlyOrphans(store, email, phoneNumber) ==
    LET found == FindOverlapping(store, email, phoneNumber)
    IN /\ found # <<>>
       /\ \A c \in Range(found) :
             /\ c.linkPrecedence = "secondary"
             /\ c.linkedId \notin Ids(store)

OverlapFinderExact ==
    [][~IsInvalid(last'.email, last'.phoneNumber)
       => Range(FindOverlapping(contacts, last'.email, last'.phoneNumber))
             = {c \in Range(contacts) : Shares(c, last'.email, last'.phoneNumber)}]_vars

(***************************************************************************)
(* C22.  Response ordering: in every success response the emails and the   *)
(* phoneNumbers are in primary-first, first-seen order: the own email and  *)
(* phone number of the primary named by the response come first (when not  *)
(* null), then the other distinct values of the Contacts linked to it, in  *)
(* the order those Contacts were created.                                  *)
(***************************************************************************)
PrimaryFirst(store, primaryContactId) ==
    <<ById(store, primaryContactId)>>
    \o SortByCreatedAt(SelectSeq(store, LAMBDA c : /\ c.linkedId = primaryContactId
                                                   /\ c.id # primaryContactId))

ResponseOrdering ==
    last.response.status = 200
    => LET view == PrimaryFirst(contacts, last.response.primaryContactId)
       IN /\ last.response.emails = Dedup(SelectSeq(EmailsOf(view), Truthy))
          /\ last.response.phoneNumbers
                = Dedup(SelectSeq(PhoneNumbersOf(view), Truthy))

(***************************************************************************)
(* C23.  Identity consolidation: after any sequence of submissions handled *)
(* one at a time from an empty table, any two Contacts that share a        *)
(* non-null email or a non-null phone number have the same root primary.   *)
(***************************************************************************)
IdentityConsolidation ==
    \A c, d \in Range(contacts) :
        (\/ c.email # NULL /\ c.email = d.email
         \/ c.phoneNumber # NULL /\ c.phoneNumber = d.phoneNumber)
        => Root(contacts, c) = Root(contacts, d)

(***************************************************************************)
(* C24.  Response well-formedness: in every success response,              *)
(* primaryContactId names a Contact that is primary in the table right     *)
(* after the submission, primaryContactId is not an element of             *)
(* secondaryContactIds, and every id in secondaryContactIds names a        *)
(* secondary whose linkedId equals primaryContactId.                       *)
(***************************************************************************)
ResponseWellFormed ==
    last.response.status = 200
    => LET primaryContactId == last.response.primaryContactId
           secondaryContactIds == Range(last.response.secondaryContactIds)
       IN /\ primaryContactId \in Ids(contacts)
          /\ ById(contacts, primaryContactId).linkPrecedence = "primary"
          /\ primaryContactId \notin secondaryContactIds
          /\ \A id \in secondaryContactIds :
                /\ id \in Ids(contacts)
                /\ ById(contacts, id).linkPrecedence = "secondary"
                /\ ById(contacts, id).linkedId = primaryContactId

(***************************************************************************)
(* C25.  Reachability of PromoteNewPrimary: every resolved root primary is *)
(* itself a member of the overlap set; so when the overlap read returns    *)
(* only Contacts that equal the submission on a given, non-empty email or  *)
(* phone number, isOverlapping is true whenever the primary list is not    *)
(* empty, and the PromoteNewPrimary branch is not executed.                *)
(***************************************************************************)
MatchesGivenValue(c, email, phoneNumber) ==
    \/ Truthy(email) /\ c.email = email
    \/ Truthy(phoneNumber) /\ c.phoneNumber = phoneNumber

PromoteNewPrimaryUnreachable ==
    [][~IsInvalid(last'.email, last'.phoneNumber)
       => LET found == FindOverlapping(contacts, last'.email, last'.phoneNumber)
              primaryContacts == PrimaryContacts(found)
          IN /\ Range(primaryContacts) \subseteq Range(found)
             /\ (\A c \in Range(found) :
                    MatchesGivenValue(c, last'.email, last'.phoneNumber))
                => /\ primaryContacts # <<>>
                      => IsOverlapping(last'.email, last'.phoneNumber,
                                       UltimatePrimary(primaryContacts))
                   /\ last'.plan # "PromoteNewPrimary"]_vars

\* A submission with a null email and a given phone number, whose overlap
\* read returned only the primary that has this phone number, was attached
\* to that primary.
PromoteNewPrimaryUnreachableWitness ==
    /\ last.plan = "AttachOrMerge"
    /\ last.response.status = 200
    /\ last.email = NULL
    /\ Len(contacts) = 2
    /\ contacts[1].linkPrecedence = "primary"
    /\ contacts[1].email # NULL
    /\ contacts[1].phoneNumber = last.phoneNumber
    /\ contacts[2].linkedId = 1

(***************************************************************************)
(* C26.  Frame on untouched identities: a submission leaves every field of *)
(* a Contact unchanged, and does not return the Contact in its answer,     *)
(* when the Contact belongs to an identity none of whose Contacts shares   *)
(* the submission's email or phone number.                                 *)
(***************************************************************************)
IsUntouched(store, c, email, phoneNumber) ==
    \A d \in Identity(store, Root(store, c)) : ~Shares(d, email, phoneNumber)

UntouchedIdentitiesFrame ==
    [][Answered
       => \A i \in 1..Len(contacts) :
             IsUntouched(contacts, contacts[i], last'.email, last'.phoneNumber)
             => /\ contacts'[i] = contacts[i]
                /\ contacts[i].id # last'.response.primaryContactId
                /\ contacts[i].id \notin Range(last'.response.secondaryContactIds)]_vars

=============================================================================
